---------------------------- MODULE Spec2Model ----------------------------
(***************************************************************************)
(* The ppc64 CPU driver of src/src/cpu/cpu_ppc64.c: the vendor/model map   *)
(* built by the cpuMapLoad callbacks, the lookups on it, and the driver    *)
(* entry points ppc64Compute, ppc64Decode, ppc64Baseline, ppc64GetModels.   *)
(*                                                                         *)
(* The entry points are modelled twice. As single steps taken once the     *)
(* map is loaded, with all their inputs and outputs recorded, for what     *)
(* they compute; there allocation failure and a failure of cpuMapLoad are  *)
(* left out. And as calls that start before the map is loaded and end      *)
(* after it is freed, with allocation and load failures, for what they     *)
(* leave allocated (SpecCalls).                                            *)
(***************************************************************************)
EXTENDS Integers, Sequences, FiniteSets, TLC

VARIABLES
    pc,     \* "idle": no map; "loading": cpuMapLoad is feeding the callbacks;
            \* "loaded": ppc64LoadMap has returned the map to its caller
    map,    \* the struct ppc64_map of the call in progress
    call,   \* the most recent callback or entry point: inputs, locals, result
    heap,   \* the objects of this driver that are allocated and not yet freed
    frame   \* the entry point that is waiting for its ppc64LoadMap, if any

vars == <<pc, map, call, heap, frame>>

---------------------------------------------------------------------------
(* Values *)

\* A NULL char *.
NullStr == "<NULL>"

VendorNames == {"IBM", "Freescale"}
ModelNames == {"POWER8", "POWER9"}

\* PVR values that model records declare: a generation entry with revision
\* zero and a revision of the same generation.
DeclaredPVRs == {\h004D0000, \h004D0100}

\* PVR values handed to ppc64Decode: the declared ones, an unknown revision
\* of their generation, and a revision and the revision zero of a generation
\* that no record declares.
QueryPVRs == DeclaredPVRs \cup {\h004D01FF, \h004E0100, \h004E0000}

\* pvr & 0x0000FFFF and pvr & 0xFFFF0000 on a uint32_t.
Low16(pvr) == pvr % 65536
High16(pvr) == pvr - (pvr % 65536)

\* A NULL struct ppc64_model *.
NullModel == [name |-> NullStr, vendor |-> NullStr, pvr |-> 0]

\* A struct ppc64_map that is not allocated, and one fresh from VIR_ALLOC.
NullMap == [alloc |-> FALSE, vendors |-> <<>>, models |-> <<>>]
EmptyMap == [alloc |-> TRUE, vendors |-> <<>>, models |-> <<>>]

---------------------------------------------------------------------------
(* Lookups: the lists are singly linked, newest element first. *)

RECURSIVE ModelListFind(_, _)
ModelListFind(list, name) ==
    IF list = <<>> THEN NullModel
    ELSE IF Head(list).name = name THEN Head(list)
    ELSE ModelListFind(Tail(list), name)

ppc64ModelFind(m, name) == ModelListFind(m.models, name)

RECURSIVE ModelListFindPVR(_, _)
ModelListFindPVR(list, pvr) ==
    IF list = <<>> THEN NullModel
    ELSE IF Head(list).pvr = pvr THEN Head(list)
    ELSE ModelListFindPVR(Tail(list), pvr)

\* The variant without the generation fallback of lines 107-108.
ppc64ModelFindPVR_exactOnly(m, pvr) == ModelListFindPVR(m.models, pvr)

RECURSIVE ppc64ModelFindPVR(_, _)
ppc64ModelFindPVR(m, pvr) ==
    LET model == ModelListFindPVR(m.models, pvr)
    IN  IF model # NullModel THEN model
        ELSE IF Low16(pvr) # 0 THEN ppc64ModelFindPVR(m, High16(pvr))
        ELSE NullModel

RECURSIVE VendorListFind(_, _)
VendorListFind(list, name) ==
    IF list = <<>> THEN NullStr
    ELSE IF Head(list) = name THEN Head(list)
    ELSE VendorListFind(Tail(list), name)

\* A struct ppc64_vendor holds its name only; a pointer to it is modelled by
\* that name, NullStr being the NULL pointer.
ppc64VendorFind(m, name) == VendorListFind(m.vendors, name)

---------------------------------------------------------------------------
(* The records cpuMapLoad hands to ppc64MapLoadCallback *)

\* string(@name) of a <vendor>: virXPathString yields NULL when it is absent.
VendorRecords == [name : VendorNames \cup {NullStr}]

\* A <model>: its name, whether it has a <vendor> child and that child's
\* name, whether it has a <pvr> child whose value parses, and the value.
VendorElements ==
    [hasVendor : {FALSE}, vendor : {NullStr}]
    \cup [hasVendor : {TRUE}, vendor : VendorNames \cup {NullStr}]

PvrElements ==
    [pvrOk : {FALSE}, pvr : {0}] \cup [pvrOk : {TRUE}, pvr : DeclaredPVRs]

ModelRecords ==
    {[name |-> n, hasVendor |-> v.hasVendor, vendor |-> v.vendor,
      pvrOk |-> p.pvrOk, pvr |-> p.pvr] :
        n \in ModelNames \cup {NullStr}, v \in VendorElements, p \in PvrElements}

\* What a callback leaves behind: the map, whether it took its "ignore"
\* exit, and its return value.
Inserted(m) == [map |-> m, ignored |-> FALSE, ret |-> 0]
Ignored(m) == [map |-> m, ignored |-> TRUE, ret |-> 0]

\* ppc64VendorLoad without the check of lines 196-200.
VendorLoad_noDuplicateCheck(m, rec) ==
    IF rec.name = NullStr THEN Ignored(m)
    ELSE Inserted([m EXCEPT !.vendors = <<rec.name>> \o m.vendors])

VendorLoad(m, rec) ==
    IF rec.name = NullStr THEN Ignored(m)
    ELSE IF ppc64VendorFind(m, rec.name) # NullStr THEN Ignored(m)
    ELSE Inserted([m EXCEPT !.vendors = <<rec.name>> \o m.vendors])

\* The struct ppc64_model that ppc64ModelLoad fills in for a record.
NewModel(m, rec) ==
    [name |-> rec.name,
     vendor |-> IF rec.hasVendor THEN ppc64VendorFind(m, rec.vendor)
                ELSE NullStr,
     pvr |-> rec.pvr]

\* ppc64ModelLoad without the check of lines 235-239.
ModelLoad_noDuplicateCheck(m, rec) ==
    IF rec.name = NullStr THEN Ignored(m)
    ELSE IF rec.hasVendor /\ rec.vendor = NullStr THEN Ignored(m)
    ELSE IF rec.hasVendor /\ ppc64VendorFind(m, rec.vendor) = NullStr
         THEN Ignored(m)
    ELSE IF ~rec.pvrOk THEN Ignored(m)
    ELSE Inserted([m EXCEPT !.models = <<NewModel(m, rec)>> \o m.models])

ModelLoad(m, rec) ==
    IF rec.name = NullStr THEN Ignored(m)
    ELSE IF ppc64ModelFind(m, rec.name) # NullModel THEN Ignored(m)
    ELSE IF rec.hasVendor /\ rec.vendor = NullStr THEN Ignored(m)
    ELSE IF rec.hasVendor /\ ppc64VendorFind(m, rec.vendor) = NullStr
         THEN Ignored(m)
    ELSE IF ~rec.pvrOk THEN Ignored(m)
    ELSE Inserted([m EXCEPT !.models = <<NewModel(m, rec)>> \o m.models])

\* Whether the previous step of this load was a record that was ignored.
PrevIgnored == call.fn \in {"ppc64VendorLoad", "ppc64ModelLoad"} /\ call.ignored

---------------------------------------------------------------------------
(* Allocation *)

\* The heap objects: the map, the vendors and models linked into it, and the
\* copies that ppc64ModelFromCPU makes for the locals of ppc64Compute. The
\* strings an object owns are allocated and freed with it.
MapObject == <<"map", "map">>
VendorObject(name) == <<"vendor", name>>
ModelObject(name) == <<"model", name>>
CopyObject(local) == <<"copy", local>>

\* What a map holds allocated: itself and the elements of its two lists.
StoreObjects(m) ==
    IF ~m.alloc THEN {}
    ELSE {MapObject}
         \cup {VendorObject(m.vendors[i]) : i \in 1..Len(m.vendors)}
         \cup {ModelObject(m.models[i].name) : i \in 1..Len(m.models)}

\* ppc64ModelFree and ppc64VendorFree of one element of a list.
RECURSIVE FreeModels(_, _)
FreeModels(h, list) ==
    IF list = <<>> THEN h
    ELSE FreeModels(h \ {ModelObject(Head(list).name)}, Tail(list))

RECURSIVE FreeVendors(_, _)
FreeVendors(h, list) ==
    IF list = <<>> THEN h
    ELSE FreeVendors(h \ {VendorObject(Head(list))}, Tail(list))

\* ppc64MapFree: the heap it leaves.
ppc64MapFree(h, m) ==
    IF ~m.alloc THEN h
    ELSE FreeVendors(FreeModels(h, m.models), m.vendors) \ {MapObject}

\* No entry point is waiting for its map.
NoFrame == [fn |-> "none"]

---------------------------------------------------------------------------
(* Loading *)

Init ==
    /\ pc = "idle"
    /\ map = NullMap
    /\ call = [fn |-> "none"]
    /\ heap = {}
    /\ frame = NoFrame

\* ppc64LoadMap up to its call of cpuMapLoad.
ppc64LoadMapEnter ==
    /\ pc = "idle"
    /\ pc' = "loading"
    /\ map' = EmptyMap
    /\ call' = [fn |-> "ppc64LoadMap"]
    /\ heap' = heap \cup {MapObject}
    /\ UNCHANGED frame

\* ppc64MapLoadCallback(CPU_MAP_ELEMENT_VENDOR); a negative return value
\* makes cpuMapLoad stop.
ppc64VendorLoad ==
    /\ pc = "loading"
    /\ \E rec \in VendorRecords :
         LET out == VendorLoad(map, rec)
         IN  /\ map' = out.map
             /\ call' = [fn |-> "ppc64VendorLoad", vrec |-> rec,
                         ignored |-> out.ignored, after |-> PrevIgnored,
                         ret |-> out.ret]
             /\ pc' = IF out.ret < 0 THEN "aborted" ELSE "loading"
             /\ heap' = heap \cup StoreObjects(out.map)
    /\ UNCHANGED frame

\* ppc64MapLoadCallback(CPU_MAP_ELEMENT_MODEL).
ppc64ModelLoad ==
    /\ pc = "loading"
    /\ \E rec \in ModelRecords :
         LET out == ModelLoad(map, rec)
         IN  /\ map' = out.map
             /\ call' = [fn |-> "ppc64ModelLoad", mrec |-> rec,
                         ignored |-> out.ignored, after |-> PrevIgnored,
                         ret |-> out.ret]
             /\ pc' = IF out.ret < 0 THEN "aborted" ELSE "loading"
             /\ heap' = heap \cup StoreObjects(out.map)
    /\ UNCHANGED frame

\* ppc64MapLoadCallback(CPU_MAP_ELEMENT_FEATURE): nothing is done.
ppc64FeatureIgnored ==
    /\ pc = "loading"
    /\ call' = [fn |-> "ppc64MapLoadCallback", ret |-> 0]
    /\ UNCHANGED <<pc, map, heap, frame>>

\* cpuMapLoad returns 0 and ppc64LoadMap returns the map.
ppc64LoadMapReturn ==
    /\ pc = "loading"
    /\ pc' = "loaded"
    /\ call' = [fn |-> "ppc64LoadMapReturn"]
    /\ UNCHANGED <<map, heap, frame>>

---------------------------------------------------------------------------
(* ppc64Decode *)

\* Longest allow-list handed to ppc64Decode.
MaxAllow == 2

\* The flags parameter, as the set of its bits that are set.
FlagSets == SUBSET {"EXPAND_FEATURES", "MIGRATABLE"}

\* virCheckFlags(supported, retval) lets the function go on only when no bit
\* outside supported is set in flags.
virCheckFlags(flags, supported) == flags \subseteq supported

\* The masks given to virCheckFlags at lines 479 and 584-585.
DecodeFlags == {"EXPAND_FEATURES"}
BaselineFlags_expandOnly == {"EXPAND_FEATURES"}
BaselineFlags == {"EXPAND_FEATURES", "MIGRATABLE"}

\* The models/nmodels pair: a sequence of names; the empty one stands for
\* both a NULL array and a count of zero.
AllowLists == UNION {[1..n -> ModelNames] : n \in 0..MaxAllow}

\* cpuModelIsAllowed (cpu.c, not part of this driver's file): no list, or an
\* empty one, allows every model; otherwise the name has to be in the list.
cpuModelIsAllowed(name, models) ==
    \/ models = <<>>
    \/ \E i \in 1..Len(models) : models[i] = name

\* The virCPUDef handed to ppc64Decode, model and vendor not yet set.
UnsetCpu == [model |-> NullStr, vendor |-> NullStr]

\* ppc64Decode writing the vendor name although the model has no vendor.
DecodeFill_vendorAlways(model) ==
    [model |-> model.name,
     vendor |-> IF model.vendor # NullStr THEN model.vendor ELSE "IBM"]

\* Lines 498-501: the strings copied into the caller's virCPUDef.
DecodeFill(model) ==
    [model |-> model.name,
     vendor |-> IF model.vendor # NullStr THEN model.vendor
                ELSE UnsetCpu.vendor]

\* ppc64ModelFindPVR looking up the generation only.
Decode_lookupGeneration(m, pvr) == ModelListFindPVR(m.models, High16(pvr))

\* Line 484: the lookup ppc64Decode makes.
DecodeLookup(m, pvr) == ppc64ModelFindPVR(m, pvr)

\* ppc64Decode, m being the map its ppc64LoadMap yields: its return value,
\* the error it reports, whether it got as far as loading the map, its local
\* model at the return, and the caller's virCPUDef.
Decode(m, hasData, pvr, models, flags) ==
    IF ~virCheckFlags(flags, DecodeFlags)
    THEN [ret |-> -1, err |-> "VIR_ERR_INVALID_ARG", loaded |-> FALSE,
          model |-> NullModel, cpu |-> UnsetCpu]
    ELSE IF ~hasData
    THEN [ret |-> -1, err |-> "none", loaded |-> FALSE,
          model |-> NullModel, cpu |-> UnsetCpu]
    ELSE LET model == DecodeLookup(m, pvr)
         IN  IF model = NullModel
             THEN [ret |-> -1, err |-> "VIR_ERR_OPERATION_FAILED",
                   loaded |-> TRUE, model |-> model, cpu |-> UnsetCpu]
             ELSE IF ~cpuModelIsAllowed(model.name, models)
             THEN [ret |-> -1, err |-> "VIR_ERR_CONFIG_UNSUPPORTED",
                   loaded |-> TRUE, model |-> model, cpu |-> UnsetCpu]
             ELSE [ret |-> 0, err |-> "none", loaded |-> TRUE,
                   model |-> model, cpu |-> DecodeFill(model)]

\* One call of ppc64Decode, its ppc64LoadMap and ppc64MapFree included: the
\* callbacks have built in map what the load of this call yields (store), and
\* the call ends with no map left. The checks that the code makes before it
\* loads are made first, and on their exits nothing was loaded.
ppc64Decode ==
    /\ pc = "loaded"
    /\ \E hasData \in BOOLEAN, flags \in FlagSets, models \in AllowLists :
       \E pvr \in IF hasData THEN QueryPVRs ELSE {0} :
         LET out == Decode(map, hasData, pvr, models, flags)
         IN  call' = [fn |-> "ppc64Decode", store |-> map,
                      hasData |-> hasData, pvr |-> pvr,
                      models |-> models, flags |-> flags,
                      ret |-> out.ret, err |-> out.err,
                      loaded |-> out.loaded,
                      model |-> out.model, cpu |-> out.cpu]
    /\ map' = NullMap
    /\ pc' = "idle"
    /\ heap' = ppc64MapFree(heap, map)
    /\ UNCHANGED frame

---------------------------------------------------------------------------
(* ppc64Baseline *)

\* Longest list of CPU descriptions handed to ppc64Baseline.
MaxCpus == 3

\* The elements of cpus[]: model name and optional vendor name.
BaselineCpus == [model : ModelNames, vendor : VendorNames \cup {NullStr}]

CpuLists == UNION {[1..n -> BaselineCpus] : n \in 1..MaxCpus}

\* A NULL virCPUDefPtr.
NullCpuDef == [isNull |-> TRUE, model |-> NullStr, vendor |-> NullStr,
               type |-> "none", match |-> "none"]

BaselineFailed(err, msg) ==
    [failed |-> TRUE, err |-> err, msg |-> msg, vendor |-> NullStr]

\* The loop of lines 596-632 from index i on, vendor being the local of that
\* name; model is the model of cpus[0].
RECURSIVE BaselineLoop(_, _, _, _, _)
BaselineLoop(m, model, cpus, i, vendor) ==
    IF i > Len(cpus)
    THEN [failed |-> FALSE, err |-> "none", msg |-> "none", vendor |-> vendor]
    ELSE IF cpus[i].model # model.name
    THEN BaselineFailed("VIR_ERR_OPERATION_FAILED", "CPUs are incompatible")
    ELSE IF cpus[i].vendor = NullStr
    THEN BaselineLoop(m, model, cpus, i + 1, vendor)
    ELSE LET vnd == ppc64VendorFind(m, cpus[i].vendor)
         IN  IF vnd = NullStr
             THEN BaselineFailed("VIR_ERR_OPERATION_FAILED",
                                 "Unknown CPU vendor")
             ELSE IF model.vendor # NullStr
             THEN IF model.vendor # vnd
                  THEN BaselineFailed("VIR_ERR_OPERATION_FAILED",
                                      "CPU vendor of model differs from vendor")
                  ELSE BaselineLoop(m, model, cpus, i + 1, vendor)
             ELSE IF vendor # NullStr
             THEN IF vendor # vnd
                  THEN BaselineFailed("VIR_ERR_OPERATION_FAILED",
                                      "CPU vendors do not match")
                  ELSE BaselineLoop(m, model, cpus, i + 1, vendor)
             ELSE BaselineLoop(m, model, cpus, i + 1, vnd)

\* The loop accepting a vendor that differs from the vendor of the model.
BaselineVendors_modelVendorUnchecked(m, model, cpus) ==
    BaselineLoop(m, [model EXCEPT !.vendor = NullStr], cpus, 1, NullStr)

\* Lines 596-632.
BaselineVendors(m, model, cpus) == BaselineLoop(m, model, cpus, 1, NullStr)

\* ppc64Baseline, m being the map its ppc64LoadMap yields: the virCPUDef it
\* returns, the error it reports, and whether it got as far as loading.
Baseline(m, cpus, flags) ==
    IF ~virCheckFlags(flags, BaselineFlags)
    THEN [cpu |-> NullCpuDef, err |-> "VIR_ERR_INVALID_ARG", msg |-> "none",
          loaded |-> FALSE]
    ELSE LET model == ppc64ModelFind(m, cpus[1].model)
         IN  IF model = NullModel
             THEN [cpu |-> NullCpuDef, err |-> "VIR_ERR_INTERNAL_ERROR",
                   msg |-> "Unknown CPU model", loaded |-> TRUE]
             ELSE LET out == BaselineVendors(m, model, cpus)
                  IN  IF out.failed
                      THEN [cpu |-> NullCpuDef, err |-> out.err,
                            msg |-> out.msg, loaded |-> TRUE]
                      ELSE [cpu |-> [isNull |-> FALSE, model |-> model.name,
                                     vendor |-> out.vendor,
                                     type |-> "VIR_CPU_TYPE_GUEST",
                                     match |-> "VIR_CPU_MATCH_EXACT"],
                            err |-> "none", msg |-> "none", loaded |-> TRUE]

\* One call of ppc64Baseline, its ppc64LoadMap and ppc64MapFree included (see
\* ppc64Decode).
ppc64Baseline ==
    /\ pc = "loaded"
    /\ \E cpus \in CpuLists, flags \in FlagSets :
         LET out == Baseline(map, cpus, flags)
         IN  call' = [fn |-> "ppc64Baseline", store |-> map, cpus |-> cpus,
                      flags |-> flags, result |-> out.cpu, err |-> out.err,
                      msg |-> out.msg, loaded |-> out.loaded]
    /\ map' = NullMap
    /\ pc' = "idle"
    /\ heap' = ppc64MapFree(heap, map)
    /\ UNCHANGED frame

---------------------------------------------------------------------------
(* ppc64Compute *)

\* static const virArch archs[].
archs == {"VIR_ARCH_PPC64", "VIR_ARCH_PPC64LE"}

\* The host description: always of one of the driver's architectures.
HostCpus == [arch : archs, model : ModelNames,
             vendor : VendorNames \cup {NullStr}]

\* The requested description.
RequestCpus ==
    [arch : {"VIR_ARCH_NONE", "VIR_ARCH_PPC64", "VIR_ARCH_X86_64"},
     model : ModelNames,
     vendor : VendorNames \cup {NullStr},
     type : {"VIR_CPU_TYPE_HOST", "VIR_CPU_TYPE_GUEST"},
     match : {"VIR_CPU_MATCH_MINIMUM", "VIR_CPU_MATCH_EXACT",
              "VIR_CPU_MATCH_STRICT"}]

\* *guestData and *message when nothing was written to them.
NoData == [set |-> FALSE, arch |-> "VIR_ARCH_NONE", pvr |-> 0]
NoMessage == "none"

\* ppc64ModelCopy: name, pvr and vendor of the model are copied.
ppc64ModelCopy(model) ==
    [name |-> model.name, vendor |-> model.vendor, pvr |-> model.pvr]

\* ppc64ModelFromCPU: a copy of the model that cpu names, or NULL.
ppc64ModelFromCPU(cpu, m) ==
    LET model == ppc64ModelFind(m, cpu.model)
    IN  IF model = NullModel THEN NullModel ELSE ppc64ModelCopy(model)

\* ppc64MakeCPUData: the architecture and a copy of the model's data.
ppc64MakeCPUData(arch, model) == [set |-> TRUE, arch |-> arch, pvr |-> model.pvr]

\* Lines 415-418 not resolving the model of the host.
ComputeModels_hostUnresolved(m, host, cpu) ==
    [host |-> [name |-> host.model, vendor |-> NullStr, pvr |-> 0],
     guest |-> ppc64ModelFromCPU(cpu, m)]

\* Lines 415-418: host_model and guest_model; the second is not looked up
\* when the first is NULL.
ComputeModels(m, host, cpu) ==
    LET host_model == ppc64ModelFromCPU(host, m)
    IN  [host |-> host_model,
         guest |-> IF host_model = NullModel THEN NullModel
                   ELSE ppc64ModelFromCPU(cpu, m)]

\* The test of lines 421-423 without its comparison of the names.
StrictMismatch_namesIgnored(cpu, guest_model, host_model) ==
    /\ cpu.type = "VIR_CPU_TYPE_GUEST"
    /\ cpu.match = "VIR_CPU_MATCH_STRICT"

\* Lines 421-423.
StrictMismatch(cpu, guest_model, host_model) ==
    /\ cpu.type = "VIR_CPU_TYPE_GUEST"
    /\ cpu.match = "VIR_CPU_MATCH_STRICT"
    /\ guest_model.name # host_model.name

\* ppc64Compute, m being the map its ppc64LoadMap yields; wantData and
\* wantMessage tell whether guestData and message are not NULL.
Compute(m, host, cpu, wantData, wantMessage) ==
    LET arch == IF cpu.arch # "VIR_ARCH_NONE" THEN cpu.arch ELSE host.arch
        message(text) == IF wantMessage THEN text ELSE NoMessage
    IN
    IF cpu.arch # "VIR_ARCH_NONE" /\ cpu.arch \notin archs
    THEN [cmp |-> "VIR_CPU_COMPARE_INCOMPATIBLE", err |-> "none",
          message |-> message("CPU arch does not match host arch"),
          data |-> NoData, loaded |-> FALSE]
    ELSE IF cpu.vendor # NullStr
            /\ (host.vendor = NullStr \/ cpu.vendor # host.vendor)
    THEN [cmp |-> "VIR_CPU_COMPARE_INCOMPATIBLE", err |-> "none",
          message |->
            message("host CPU vendor does not match required CPU vendor"),
          data |-> NoData, loaded |-> FALSE]
    ELSE LET models == ComputeModels(m, host, cpu)
         IN  IF models.host = NullModel \/ models.guest = NullModel
             THEN [cmp |-> "VIR_CPU_COMPARE_ERROR",
                   err |-> "VIR_ERR_INTERNAL_ERROR",
                   message |-> NoMessage, data |-> NoData, loaded |-> TRUE]
             ELSE IF wantData
                     /\ StrictMismatch(cpu, models.guest, models.host)
             THEN [cmp |-> "VIR_CPU_COMPARE_INCOMPATIBLE", err |-> "none",
                   message |->
                     message("host CPU model does not match required CPU model"),
                   data |-> NoData, loaded |-> TRUE]
             ELSE [cmp |-> "VIR_CPU_COMPARE_IDENTICAL", err |-> "none",
                   message |-> NoMessage,
                   data |-> IF wantData
                            THEN ppc64MakeCPUData(arch, models.guest)
                            ELSE NoData,
                   loaded |-> TRUE]

\* One call of ppc64Compute, its ppc64LoadMap, ppc64MapFree and ppc64ModelFree
\* included (see ppc64Decode).
ppc64Compute ==
    /\ pc = "loaded"
    /\ \E host \in HostCpus, cpu \in RequestCpus,
          wantData \in BOOLEAN, wantMessage \in BOOLEAN :
         LET out == Compute(map, host, cpu, wantData, wantMessage)
         IN  call' = [fn |-> "ppc64Compute", store |-> map, host |-> host,
                      cpu |-> cpu, wantData |-> wantData,
                      wantMessage |-> wantMessage, cmp |-> out.cmp,
                      err |-> out.err, message |-> out.message,
                      data |-> out.data, loaded |-> out.loaded]
    /\ map' = NullMap
    /\ pc' = "idle"
    /\ heap' = ppc64MapFree(heap, map)
    /\ UNCHANGED frame

---------------------------------------------------------------------------
(* The entry points as calls: from their entry to their return *)

\* The descriptions the calls are made with: the host's architecture only
\* chooses the architecture of *guestData, and ppc64Compute treats every
\* match but VIR_CPU_MATCH_STRICT alike.
CallHosts == {host \in HostCpus : host.arch = "VIR_ARCH_PPC64"}
CallRequests == {cpu \in RequestCpus : cpu.match # "VIR_CPU_MATCH_MINIMUM"}

\* ppc64LoadMap called by the entry point fn: VIR_ALLOC(map) fails and NULL
\* is returned, or cpuMapLoad starts to feed the callbacks.
LoadMapBegin(fn, allocOk) ==
    /\ frame' = [fn |-> fn]
    /\ call' = [fn |-> "ppc64LoadMap"]
    /\ IF allocOk
       THEN /\ pc' = "loading"
            /\ map' = EmptyMap
            /\ heap' = heap \cup {MapObject}
       ELSE /\ pc' = "loaded"
            /\ map' = NullMap
            /\ heap' = heap

\* cpuMapLoad fails, or a callback's VIR_ALLOC does and the load is given up:
\* the error exit of ppc64LoadMap frees the map and returns NULL.
ppc64LoadMapError ==
    /\ pc = "loading"
    /\ pc' = "loaded"
    /\ map' = NullMap
    /\ heap' = ppc64MapFree(heap, map)
    /\ call' = [fn |-> "ppc64LoadMapError"]
    /\ UNCHANGED frame

\* The return of an entry point: what it returns or reports, whether it got
\* as far as calling ppc64LoadMap, and how many objects were allocated when
\* it reached its exit.
Returned(fn, exit, loaded, atExit) ==
    [fn |-> fn, exit |-> exit, loaded |-> loaded,
     atExit |-> Cardinality(atExit)]

\* The copies that lines 416-417 have made when ppc64Compute reaches its
\* cleanup; fail names the allocation that fails, if any.
ComputeCopies(m, host, cpu, fail) ==
    LET models == ComputeModels(m, host, cpu)
        hostCopied == models.host # NullModel /\ fail # "host_model"
        guestCopied == hostCopied /\ models.guest # NullModel
                       /\ fail # "guest_model"
    IN  {CopyObject("host_model") : x \in {y \in {1} : hostCopied}}
        \cup {CopyObject("guest_model") : x \in {y \in {1} : guestCopied}}

\* What ppc64Compute returns when the allocation named by fail fails.
ComputeWithFailure(m, host, cpu, wantData, wantMessage, fail) ==
    LET out == Compute(m, host, cpu, wantData, wantMessage)
        copies == ComputeCopies(m, host, cpu, fail)
    IN  IF ~m.alloc THEN "VIR_CPU_COMPARE_ERROR"
        ELSE IF fail \in {"host_model", "guest_model"}
                /\ CopyObject(fail) \notin copies
        THEN "VIR_CPU_COMPARE_ERROR"
        ELSE IF fail = "message" /\ wantMessage
                /\ out.cmp = "VIR_CPU_COMPARE_INCOMPATIBLE"
        THEN "VIR_CPU_COMPARE_ERROR"
        ELSE IF fail = "guestData" /\ wantData
                /\ out.cmp = "VIR_CPU_COMPARE_IDENTICAL"
        THEN "VIR_CPU_COMPARE_ERROR"
        ELSE out.cmp

ComputeFailures == {"none", "host_model", "guest_model", "message", "guestData"}

\* The cleanup of ppc64Compute without its last ppc64ModelFree.
ComputeCleanup_guestModelKept(h, m) ==
    ppc64MapFree(h, m) \ {CopyObject("host_model")}

\* Lines 443-446: the cleanup of ppc64Compute.
ComputeCleanup(h, m) ==
    (ppc64MapFree(h, m) \ {CopyObject("host_model")})
        \ {CopyObject("guest_model")}

\* ppc64Compute is called: it returns from the checks of architecture and
\* vendor, or calls ppc64LoadMap.
ppc64ComputeCall ==
    /\ pc = "idle"
    /\ \E host \in CallHosts, cpu \in CallRequests, wantMessage \in BOOLEAN,
          fail \in {"none", "message"}, allocOk \in BOOLEAN :
         IF ~Compute(NullMap, host, cpu, FALSE, wantMessage).loaded
         THEN /\ call' = Returned("ppc64Compute",
                          ComputeWithFailure(EmptyMap, host, cpu, FALSE,
                                             wantMessage, fail),
                          FALSE, heap)
              /\ heap' = ComputeCleanup(heap, NullMap)
              /\ UNCHANGED <<pc, map, frame>>
         ELSE LoadMapBegin("ppc64Compute", allocOk)

\* ppc64LoadMap has returned to ppc64Compute, which goes on to its return.
ppc64ComputeReturn ==
    /\ pc = "loaded"
    /\ frame.fn = "ppc64Compute"
    /\ \E host \in CallHosts, cpu \in CallRequests, wantData \in BOOLEAN,
          wantMessage \in BOOLEAN, fail \in ComputeFailures :
         /\ Compute(NullMap, host, cpu, FALSE, wantMessage).loaded
         /\ LET atCleanup ==
                    heap \cup (IF map.alloc
                               THEN ComputeCopies(map, host, cpu, fail)
                               ELSE {})
            IN  /\ call' = Returned("ppc64Compute",
                             ComputeWithFailure(map, host, cpu, wantData,
                                                wantMessage, fail),
                             TRUE, atCleanup)
                /\ heap' = ComputeCleanup(atCleanup, map)
    /\ map' = NullMap
    /\ pc' = "idle"
    /\ frame' = NoFrame

\* ppc64Decode is called: it returns from virCheckFlags or because data is
\* NULL, or calls ppc64LoadMap.
ppc64DecodeCall ==
    /\ pc = "idle"
    /\ \E hasData \in BOOLEAN, flags \in FlagSets, allocOk \in BOOLEAN :
         IF ~virCheckFlags(flags, DecodeFlags) \/ ~hasData
         THEN /\ call' = Returned("ppc64Decode",
                                  Decode(NullMap, hasData, 0, <<>>, flags).err,
                                  FALSE, heap)
              /\ UNCHANGED <<pc, map, heap, frame>>
         ELSE LoadMapBegin("ppc64Decode", allocOk)

\* ppc64LoadMap has returned to ppc64Decode: with NULL it returns at line
\* 482, otherwise every path ends in the cleanup of lines 505-508.
ppc64DecodeReturn ==
    /\ pc = "loaded"
    /\ frame.fn = "ppc64Decode"
    /\ \E pvr \in QueryPVRs, models \in AllowLists,
          fail \in {"none", "VIR_STRDUP"} :
         LET out == Decode(map, TRUE, pvr, models, {})
         IN  call' = Returned("ppc64Decode",
                        IF ~map.alloc THEN "no map"
                        ELSE IF out.ret = 0 /\ fail # "none" THEN fail
                        ELSE out.err,
                        TRUE, heap)
    /\ heap' = IF map.alloc THEN ppc64MapFree(heap, map) ELSE heap
    /\ map' = NullMap
    /\ pc' = "idle"
    /\ frame' = NoFrame

\* ppc64Baseline is called: it returns from virCheckFlags or calls
\* ppc64LoadMap.
ppc64BaselineCall ==
    /\ pc = "idle"
    /\ \E flags \in FlagSets, allocOk \in BOOLEAN :
         IF ~virCheckFlags(flags, BaselineFlags)
         THEN /\ call' = Returned("ppc64Baseline", "VIR_ERR_INVALID_ARG",
                                  FALSE, heap)
              /\ UNCHANGED <<pc, map, heap, frame>>
         ELSE LoadMapBegin("ppc64Baseline", allocOk)

\* ppc64LoadMap has returned to ppc64Baseline: every path, the error exit
\* included, ends in the cleanup of lines 644-647.
ppc64BaselineReturn ==
    /\ pc = "loaded"
    /\ frame.fn = "ppc64Baseline"
    /\ \E cpus \in CpuLists, fail \in {"none", "VIR_ALLOC"} :
         LET out == Baseline(map, cpus, {})
         IN  call' = Returned("ppc64Baseline",
                        IF ~map.alloc THEN "no map"
                        ELSE IF ~out.cpu.isNull /\ fail # "none" THEN fail
                        ELSE out.err,
                        TRUE, heap)
    /\ heap' = ppc64MapFree(heap, map)
    /\ map' = NullMap
    /\ pc' = "idle"
    /\ frame' = NoFrame

\* The loop of lines 669-682: the number of models, and their names when the
\* caller asks for them.
GetModels(m, wantNames) ==
    [nmodels |-> Len(m.models),
     names |-> IF wantNames
               THEN [i \in 1..Len(m.models) |-> m.models[i].name]
               ELSE <<>>]

\* ppc64GetModels is called: it calls ppc64LoadMap at once.
ppc64GetModelsCall ==
    /\ pc = "idle"
    /\ \E allocOk \in BOOLEAN : LoadMapBegin("ppc64GetModels", allocOk)

\* ppc64LoadMap has returned to ppc64GetModels: every path, the error exit
\* included, ends in the cleanup of lines 684-687.
ppc64GetModelsReturn ==
    /\ pc = "loaded"
    /\ frame.fn = "ppc64GetModels"
    /\ \E wantNames \in BOOLEAN, fail \in {"none", "VIR_STRDUP"} :
         LET out == GetModels(map, wantNames)
             failed == \/ ~map.alloc
                       \/ (wantNames /\ fail # "none" /\ out.nmodels > 0)
         IN  call' = Returned("ppc64GetModels",
                              IF failed THEN "error" ELSE "cleanup",
                              TRUE, heap)
                     @@ [nmodels |-> IF failed THEN -1 ELSE out.nmodels,
                         names |-> IF failed THEN <<>> ELSE out.names]
    /\ heap' = ppc64MapFree(heap, map)
    /\ map' = NullMap
    /\ pc' = "idle"
    /\ frame' = NoFrame

NextLoad ==
    \/ ppc64LoadMapEnter
    \/ ppc64VendorLoad
    \/ ppc64ModelLoad
    \/ ppc64FeatureIgnored

SpecLoad == Init /\ [][NextLoad]_vars

NextDecode ==
    \/ ppc64LoadMapEnter
    \/ ppc64VendorLoad
    \/ ppc64ModelLoad
    \/ ppc64FeatureIgnored
    \/ ppc64LoadMapReturn
    \/ ppc64Decode

SpecDecode == Init /\ [][NextDecode]_vars

NextBaseline ==
    \/ ppc64LoadMapEnter
    \/ ppc64VendorLoad
    \/ ppc64ModelLoad
    \/ ppc64FeatureIgnored
    \/ ppc64LoadMapReturn
    \/ ppc64Baseline

SpecBaseline == Init /\ [][NextBaseline]_vars

NextFlags ==
    \/ ppc64LoadMapEnter
    \/ ppc64VendorLoad
    \/ ppc64ModelLoad
    \/ ppc64FeatureIgnored
    \/ ppc64LoadMapReturn
    \/ ppc64Decode
    \/ ppc64Baseline

SpecFlags == Init /\ [][NextFlags]_vars

NextCompute ==
    \/ ppc64LoadMapEnter
    \/ ppc64VendorLoad
    \/ ppc64ModelLoad
    \/ ppc64FeatureIgnored
    \/ ppc64LoadMapReturn
    \/ ppc64Compute

SpecCompute == Init /\ [][NextCompute]_vars

NextCalls ==
    \/ ppc64ComputeCall
    \/ ppc64DecodeCall
    \/ ppc64BaselineCall
    \/ ppc64GetModelsCall
    \/ ppc64VendorLoad
    \/ ppc64ModelLoad
    \/ ppc64FeatureIgnored
    \/ ppc64LoadMapReturn
    \/ ppc64LoadMapError
    \/ ppc64ComputeReturn
    \/ ppc64DecodeReturn
    \/ ppc64BaselineReturn
    \/ ppc64GetModelsReturn

SpecCalls == Init /\ [][NextCalls]_vars

---------------------------------------------------------------------------
(* Claims *)

Range(seq) == {seq[i] : i \in 1..Len(seq)}
NamesOf(models) == {models[i].name : i \in 1..Len(models)}

\* C7: whatever vendor and model records the callbacks have processed, in any
\* order and with any repetitions, no two vendors of the map have the same
\* name and no two models of the map have the same name.
C7_UniqueNames ==
    /\ \A i, j \in 1..Len(map.vendors) :
         map.vendors[i] = map.vendors[j] => i = j
    /\ \A i, j \in 1..Len(map.models) :
         map.models[i].name = map.models[j].name => i = j

\* A record repeating the name of a model of a full map has been processed.
C7_Witness ==
    /\ call.fn = "ppc64ModelLoad"
    /\ call.mrec.name \in NamesOf(map.models)
    /\ call.ignored
    /\ Len(map.models) = Cardinality(ModelNames)
    /\ Len(map.vendors) = Cardinality(VendorNames)

\* The failures of a record that C8 lists, told from the record and the map
\* it arrives at.
VendorRecordFails(m, rec) ==
    rec.name = NullStr \/ rec.name \in Range(m.vendors)

ModelRecordFails(m, rec) ==
    \/ rec.name = NullStr
    \/ rec.name \in NamesOf(m.models)
    \/ rec.hasVendor /\ rec.vendor \notin Range(m.vendors)
    \/ ~rec.pvrOk

\* C8: a record whose insertion fails leaves the vendors and models of the
\* map as they were, the callback returns 0 so that the load goes on, and a
\* valid record is inserted at the head of its list whatever came before it.
C8_FailedRecordIgnored ==
    [][/\ call'.fn = "ppc64VendorLoad" =>
            /\ call'.ret = 0 /\ pc' = "loading"
            /\ map' = IF VendorRecordFails(map, call'.vrec) THEN map
                      ELSE [map EXCEPT
                              !.vendors = <<call'.vrec.name>> \o map.vendors]
       /\ call'.fn = "ppc64ModelLoad" =>
            /\ call'.ret = 0 /\ pc' = "loading"
            /\ map' = IF ModelRecordFails(map, call'.mrec) THEN map
                      ELSE [map EXCEPT
                              !.models =
                                <<[name |-> call'.mrec.name,
                                   vendor |-> call'.mrec.vendor,
                                   pvr |-> call'.mrec.pvr]>> \o map.models]
      ]_vars

\* A valid model record citing a vendor has been inserted right after a
\* record that was ignored.
C8_Witness ==
    /\ call.fn = "ppc64ModelLoad"
    /\ ~call.ignored
    /\ call.after
    /\ call.mrec.hasVendor
    /\ Head(map.models).name = call.mrec.name

\* The models of a map whose stored identifier is id.
WithPvr(m, id) == {i \in 1..Len(m.models) : m.models[i].pvr = id}

\* id with its low 16 bits cleared.
Generation(id) == (id \div 65536) * 65536

\* Whether find_by_identifier is to find a model for id in the map.
Resolvable(m, id) ==
    \/ WithPvr(m, id) # {}
    \/ (id % 65536 # 0 /\ WithPvr(m, Generation(id)) # {})

DecodeLookedUp == call.fn = "ppc64Decode" /\ call.loaded

\* C10: the lookup by identifier returns a model whose stored identifier is id
\* when there is one; otherwise, when the low 16 bits of id are not zero, a
\* model whose stored identifier is id with its low 16 bits cleared when there
\* is one; otherwise it fails. It fails when no stored identifier has the high
\* 16 bits of id, and succeeds when a model with those high 16 bits and low
\* 16 bits of zero is stored.
C10_FindPVR ==
    DecodeLookedUp =>
        LET m == call.store
            id == call.pvr
        IN  /\ IF WithPvr(m, id) # {}
               THEN call.model # NullModel /\ call.model.pvr = id
               ELSE IF id % 65536 # 0 /\ WithPvr(m, Generation(id)) # {}
               THEN call.model # NullModel
                    /\ call.model.pvr = Generation(id)
               ELSE call.model = NullModel
            /\ call.model # NullModel => call.model \in Range(m.models)
            /\ (\A i \in 1..Len(m.models) :
                    m.models[i].pvr \div 65536 # id \div 65536)
                 => call.model = NullModel
            /\ WithPvr(m, Generation(id)) # {} => call.model # NullModel

\* An identifier with an unknown revision has been resolved to the model of
\* its generation although a model of another revision is stored too.
C10_Witness ==
    /\ DecodeLookedUp
    /\ call.pvr = \h004D01FF
    /\ call.model.pvr = \h004D0000
    /\ WithPvr(call.store, \h004D0100) # {}

\* C9 as stated: for every model m of the map, the lookup by m's identifier
\* returns the model that the lookup by m's name returns.
C9_SameAsFindByName ==
    DecodeLookedUp =>
        \A i \in WithPvr(call.store, call.pvr) :
            call.model = ppc64ModelFind(call.store, call.store.models[i].name)

\* C9 amended: for every model m of the map, the lookup by m's identifier
\* returns the most recently inserted model whose identifier is m's; this is
\* the model the lookup by m's name returns when no other model of the map
\* has m's identifier.
C9_NewestWithSamePvr ==
    DecodeLookedUp =>
        LET m == call.store
            same == WithPvr(m, call.pvr)
        IN  \A i \in same :
              /\ call.model = m.models[CHOOSE j \in same :
                                         \A k \in same : j <= k]
              /\ same = {i} => call.model = ppc64ModelFind(m, m.models[i].name)

\* The identifier of the older of two models with different identifiers has
\* been looked up.
C9_Witness ==
    /\ DecodeLookedUp
    /\ Len(call.store.models) = 2
    /\ call.store.models[1].pvr # call.store.models[2].pvr
    /\ call.pvr = call.store.models[2].pvr
    /\ call.model = call.store.models[2]

\* The three outcomes that C4 gives ppc64Decode.
DecodeThreeOutcomes ==
    IF ~Resolvable(call.store, call.pvr)
    THEN /\ call.ret = -1
         /\ call.err = "VIR_ERR_OPERATION_FAILED"
         /\ call.cpu = [model |-> NullStr, vendor |-> NullStr]
    ELSE IF call.models # <<>> /\ call.model.name \notin Range(call.models)
    THEN /\ call.ret = -1
         /\ call.err = "VIR_ERR_CONFIG_UNSUPPORTED"
    ELSE /\ call.ret = 0
         /\ call.err = "none"
         /\ call.model \in Range(call.store.models)
         /\ call.cpu.model = call.model.name
         /\ call.cpu.vendor = call.model.vendor

ModelNamed(m, name) ==
    m.models[CHOOSE i \in 1..Len(m.models) : m.models[i].name = name]

\* The elements of a list that specify a vendor.
Specified(cpus) == {i \in 1..Len(cpus) : cpus[i].vendor # NullStr}

FirstSpecified(cpus) ==
    CHOOSE i \in Specified(cpus) : \A j \in Specified(cpus) : i <= j

\* C1 as stated, for a vendor that the map holds and that the model's fixed
\* vendor, if any, does not contradict: a list whose elements all name the
\* model M of the map, in which a vendor V is specified and no other vendor
\* is, gives a description of type guest, match exact, model M, vendor V.
C1_BaselineVendor ==
    (/\ call.fn = "ppc64Baseline"
     /\ call.cpus[1].model \in NamesOf(call.store.models)
     /\ \A i \in 1..Len(call.cpus) : call.cpus[i].model = call.cpus[1].model
     /\ Specified(call.cpus) # {}
     /\ \A i \in Specified(call.cpus) :
            /\ call.cpus[i].vendor = call.cpus[FirstSpecified(call.cpus)].vendor
            /\ call.cpus[i].vendor \in Range(call.store.vendors)
            /\ ModelNamed(call.store, call.cpus[1].model).vendor
                  \in {NullStr, call.cpus[i].vendor})
    => call.result = [isNull |-> FALSE,
                      model |-> call.cpus[1].model,
                      vendor |-> call.cpus[FirstSpecified(call.cpus)].vendor,
                      type |-> "VIR_CPU_TYPE_GUEST",
                      match |-> "VIR_CPU_MATCH_EXACT"]

\* What C6 requires of a list for a description to be returned.
BaselineConsistent(m, cpus) ==
    /\ cpus[1].model \in NamesOf(m.models)
    /\ \A i \in 1..Len(cpus) : cpus[i].model = cpus[1].model
    /\ \A i \in Specified(cpus) : cpus[i].vendor \in Range(m.vendors)
    /\ IF ModelNamed(m, cpus[1].model).vendor # NullStr
       THEN \A i \in Specified(cpus) :
               cpus[i].vendor = ModelNamed(m, cpus[1].model).vendor
       ELSE \A i \in Specified(cpus) :
               cpus[i].vendor = cpus[FirstSpecified(cpus)].vendor

\* C6: ppc64Baseline returns a description if and only if the model of the
\* first element is in the map, every element names that model, every
\* specified vendor is a vendor of the map, and the specified vendors all are
\* the model's fixed vendor or, when it has none, the first specified vendor;
\* when the model of the first element is in the map and one of the others
\* fails, VIR_ERR_OPERATION_FAILED is reported and nothing is returned.
C6_BaselineIff ==
    call.fn = "ppc64Baseline" =>
        /\ ~call.result.isNull <=> BaselineConsistent(call.store, call.cpus)
        /\ call.result.isNull => call.result = NullCpuDef /\ call.err # "none"
        /\ (/\ call.cpus[1].model \in NamesOf(call.store.models)
            /\ ~BaselineConsistent(call.store, call.cpus))
           => call.err = "VIR_ERR_OPERATION_FAILED"

\* A list whose first element specifies no vendor and whose next two specify
\* different vendors of the map has been refused for a model without vendor.
C6_Witness ==
    /\ call.fn = "ppc64Baseline"
    /\ Len(call.cpus) = 3
    /\ call.cpus[1].vendor = NullStr
    /\ call.cpus[2].vendor \in Range(call.store.vendors)
    /\ call.cpus[3].vendor \in Range(call.store.vendors)
    /\ call.msg = "CPU vendors do not match"
    /\ call.result.isNull

\* What a call of ppc64Decode or ppc64Baseline does with no flag set.
DecodeNoFlags ==
    Decode(call.store, call.hasData, call.pvr, call.models, {})

BaselineNoFlags == Baseline(call.store, call.cpus, {})

DecodeSameAsNoFlags ==
    /\ call.ret = DecodeNoFlags.ret
    /\ call.err = DecodeNoFlags.err
    /\ call.cpu = DecodeNoFlags.cpu

BaselineSameAsNoFlags ==
    /\ call.result = BaselineNoFlags.cpu
    /\ call.err = BaselineNoFlags.err

C2_UnknownModelIsError ==
    (/\ call.fn = "ppc64Compute"
     /\ \/ call.host.model \notin NamesOf(call.store.models)
        \/ call.cpu.model \notin NamesOf(call.store.models))
    => call.cmp = "VIR_CPU_COMPARE_ERROR"

\* The request passes the checks made before the names are resolved.
PassesArchAndVendor(host, cpu) ==
    /\ cpu.arch \in {"VIR_ARCH_NONE", "VIR_ARCH_PPC64", "VIR_ARCH_PPC64LE"}
    /\ cpu.vendor \in {NullStr, host.vendor}

\* C2 amended: when the model name of the host or of the request is not the
\* name of a model of the map, ppc64Compute returns Error if the request's
\* architecture is unspecified or one of the driver's two and its vendor is
\* unspecified or the host's vendor, and Incompatible otherwise.
C2_UnknownModelIsErrorAfterArchAndVendor ==
    (/\ call.fn = "ppc64Compute"
     /\ \/ call.host.model \notin NamesOf(call.store.models)
        \/ call.cpu.model \notin NamesOf(call.store.models))
    => IF PassesArchAndVendor(call.host, call.cpu)
       THEN /\ call.cmp = "VIR_CPU_COMPARE_ERROR"
            /\ call.err = "VIR_ERR_INTERNAL_ERROR"
       ELSE call.cmp = "VIR_CPU_COMPARE_INCOMPATIBLE"

\* A request naming a model of the map, with the host's vendor, has met a
\* host whose model is not in the map.
C2_Witness ==
    /\ call.fn = "ppc64Compute"
    /\ call.cpu.model \in NamesOf(call.store.models)
    /\ call.host.model \notin NamesOf(call.store.models)
    /\ call.cpu.vendor # NullStr
    /\ call.cpu.vendor = call.host.vendor
    /\ call.cpu.arch = "VIR_ARCH_PPC64"
    /\ call.cmp = "VIR_CPU_COMPARE_ERROR"

\* C3 as stated: a request that leaves architecture and vendor unspecified
\* and names the host's model gets Identical, whatever the map holds.
C3_SameModelIdentical ==
    (/\ call.fn = "ppc64Compute"
     /\ call.cpu.arch = "VIR_ARCH_NONE"
     /\ call.cpu.vendor = NullStr
     /\ call.cpu.model = call.host.model)
    => call.cmp = "VIR_CPU_COMPARE_IDENTICAL"

\* C3 amended: a request that leaves architecture and vendor unspecified and
\* names the host's model gets Identical when that model is in the map (for
\* every match policy and type, with or without Hardware Data asked for).
C3_SameKnownModelIdentical ==
    (/\ call.fn = "ppc64Compute"
     /\ call.cpu.arch = "VIR_ARCH_NONE"
     /\ call.cpu.vendor = NullStr
     /\ call.cpu.model = call.host.model
     /\ call.host.model \in NamesOf(call.store.models))
    => call.cmp = "VIR_CPU_COMPARE_IDENTICAL"

\* A strict guest request for the host's model has got Identical and the
\* Hardware Data of that model.
C3_Witness ==
    /\ call.fn = "ppc64Compute"
    /\ call.cpu.arch = "VIR_ARCH_NONE"
    /\ call.cpu.vendor = NullStr
    /\ call.cpu.model = call.host.model
    /\ call.cpu.type = "VIR_CPU_TYPE_GUEST"
    /\ call.cpu.match = "VIR_CPU_MATCH_STRICT"
    /\ call.wantData
    /\ call.cmp = "VIR_CPU_COMPARE_IDENTICAL"
    /\ call.data.set
    /\ call.data.pvr = ModelNamed(call.store, call.host.model).pvr

\* C11: in any sequence of calls of ppc64Compute, ppc64Decode, ppc64Baseline
\* and ppc64GetModels, whatever the exit a call takes, the map that the call
\* built, its vendors and models, and the copies made of its models are freed
\* when the call returns: between two calls nothing is allocated, and during
\* a call nothing is allocated but the map of that call and what it holds.
C11_Released ==
    /\ heap = StoreObjects(map)
    /\ pc = "idle" => (map = NullMap /\ heap = {})

\* ppc64Compute has returned Incompatible from the
\* strict comparison, with the map, two vendors, two models and two copies
\* allocated at its cleanup, and has left nothing allocated.
C11_Witness ==
    /\ pc = "idle"
    /\ call.fn = "ppc64Compute"
    /\ call.loaded
    /\ call.exit = "VIR_CPU_COMPARE_INCOMPATIBLE"
    /\ call.atExit = 7
    /\ heap = {}

=============================================================================
